---- MODULE Spec2Model ----
(***************************************************************************)
(* EquivalenceClasses (src/src/models/equivalence_classes.py): a disjoint  *)
(* set forest with path halving and union by size over integer slots, an   *)
(* identifier -> slot index, and one graph node per slot whose             *)
(* destinations/sources sets record the directed edges given to connect.   *)
(*                                                                         *)
(* Slots are numbered from 0 as in the code, so the lists _roots, _sizes   *)
(* and _nodes are functions over 0..n-1.  A reference to a Node is the     *)
(* index of the slot that holds it (one Node is created per slot).         *)
(***************************************************************************)
EXTENDS Integers, FiniteSets, Sequences, TLC

\* Number of distinct identifiers the callers draw their arguments from.
MaxIds == 4

\* Number of calls made on one EquivalenceClasses object.
MaxCalls == 7

\* Number of calls made on one object by the callers that make longer runs of
\* calls: building a tree of height 2 takes 7 calls (4 adds, 3 merges), the
\* call made on it is the 8th.
MaxLongCalls == 8

Identifiers == 1..MaxIds

\* An operation that returns None.
None == -1

VARIABLES
    _roots,        \* self._roots: slot -> parent slot
    _nodes,        \* self._nodes: slot -> Node
    _identifiers,  \* self._identifiers: identifier -> slot
    _sizes,        \* self._sizes: slot -> size
    _count,        \* self._count
    last,          \* the last call: operation, arguments, exception raised, value
                   \* returned, and whether it repeats the call made just before it
    before,        \* the object as it was when the last call was made
    connected,     \* the (source, destination) pairs of the connect calls that returned
    calls          \* number of calls made so far

vars == <<_roots, _nodes, _identifiers, _sizes, _count, last, before, connected, calls>>

\* The object's fields as one value.
Self ==
    [roots |-> _roots, nodes |-> _nodes, identifiers |-> _identifiers,
     sizes |-> _sizes, count |-> _count]

\* len(list)
len(list) == Cardinality(DOMAIN list)

\* list.append(value)
append(list, value) ==
    [i \in 0..len(list) |-> IF i = len(list) THEN value ELSE list[i]]

\* dict[key] = value
setitem(dict, key, value) ==
    [k \in DOMAIN dict \cup {key} |-> IF k = key THEN value ELSE dict[k]]

\* Node(identifier): the identifier and two empty sets of nodes.
Node(identifier) ==
    [identifier |-> identifier, destinations |-> {}, sources |-> {}]

\* A call's outcome: the exception it raised ("none" when it returned), the
\* value it returned, and the object afterwards.
Returned(self, value) == [raised |-> "none", result |-> value, self |-> self]

Raised(self, kind) == [raised |-> kind, result |-> None, self |-> self]

\* Mutant of _find_root: the loop walks to the root and writes nothing.
RECURSIVE _find_root_no_halving(_, _)
_find_root_no_halving(roots, item_idx) ==
    IF item_idx = roots[item_idx]
    THEN [roots |-> roots, root |-> item_idx]
    ELSE _find_root_no_halving(roots, roots[item_idx])

\* Mutant of _find_root: the halving write lands in the parent's entry, which
\* makes the parent its own parent, and the loop ends on it.
RECURSIVE _find_root_cuts_parent(_, _)
_find_root_cuts_parent(roots, item_idx) ==
    IF item_idx = roots[item_idx]
    THEN [roots |-> roots, root |-> item_idx]
    ELSE LET cut == [roots EXCEPT ![roots[item_idx]] = roots[item_idx]]
         IN  _find_root_cuts_parent(cut, cut[item_idx])

\* _find_root: the loop with path halving; yields the list after the loop and
\* the root the loop ended on.
RECURSIVE _find_root(_, _)
_find_root(roots, item_idx) ==
    IF item_idx = roots[item_idx]
    THEN [roots |-> roots, root |-> item_idx]
    ELSE LET halved == [roots EXCEPT ![item_idx] = roots[roots[item_idx]]]
         IN  _find_root(halved, halved[item_idx])

\* Mutant of add_is_duplicate: the check is left out.
add_never_duplicate(self, identifier) == FALSE

\* add, lines 54-55: the duplicate check.
add_is_duplicate(self, identifier) == identifier \in DOMAIN self.identifiers

\* Mutant of add_slot: the count is not incremented.
add_slot_no_count(self, identifier) ==
    LET new_item_index == len(self.roots)
    IN  [roots |-> append(self.roots, new_item_index),
         nodes |-> append(self.nodes, Node(identifier)),
         sizes |-> append(self.sizes, 1),
         identifiers |-> setitem(self.identifiers, identifier, new_item_index),
         count |-> self.count]

\* Mutant of add_slot: the new slot's parent is slot 0, not the slot itself.
add_slot_parent_zero(self, identifier) ==
    LET new_item_index == len(self.roots)
    IN  [roots |-> append(self.roots, 0),
         nodes |-> append(self.nodes, Node(identifier)),
         sizes |-> append(self.sizes, 1),
         identifiers |-> setitem(self.identifiers, identifier, new_item_index),
         count |-> self.count + 1]

\* add, lines 57-62: the new slot.
add_slot(self, identifier) ==
    LET new_item_index == len(self.roots)
    IN  [roots |-> append(self.roots, new_item_index),
         nodes |-> append(self.nodes, Node(identifier)),
         sizes |-> append(self.sizes, 1),
         identifiers |-> setitem(self.identifiers, identifier, new_item_index),
         count |-> self.count + 1]

add(self, identifier) ==
    IF add_is_duplicate(self, identifier)
    THEN Raised(self, "ValueError")
    ELSE Returned(add_slot(self, identifier), None)

\* find: an unchecked dict lookup (KeyError when absent), then _find_root.
find(self, identifier) ==
    IF identifier \notin DOMAIN self.identifiers
    THEN Raised(self, "KeyError")
    ELSE LET found == _find_root(self.roots, self.identifiers[identifier])
         IN  Returned([self EXCEPT !.roots = found.roots], found.root)

\* Mutant of union_roots: the early return for equal roots is missing.
union_roots_always(self, root_one, root_two) ==
    IF self.sizes[root_one] < self.sizes[root_two]
    THEN [self EXCEPT !.roots[root_one] = root_two,
                      !.sizes[root_two] = self.sizes[root_two] + self.sizes[root_one],
                      !.count = self.count - 1]
    ELSE [self EXCEPT !.roots[root_two] = root_one,
                      !.sizes[root_one] = self.sizes[root_one] + self.sizes[root_two],
                      !.count = self.count - 1]

\* Mutant of union_roots: the count is decremented in the else branch only.
union_roots_count_else(self, root_one, root_two) ==
    IF root_one = root_two
    THEN self
    ELSE IF self.sizes[root_one] < self.sizes[root_two]
         THEN [self EXCEPT !.roots[root_one] = root_two,
                           !.sizes[root_two] = self.sizes[root_two] + self.sizes[root_one]]
         ELSE [self EXCEPT !.roots[root_two] = root_one,
                           !.sizes[root_one] = self.sizes[root_one] + self.sizes[root_two],
                           !.count = self.count - 1]

\* Mutant of union_roots: the count is incremented by a merge.
union_roots_count_up(self, root_one, root_two) ==
    IF root_one = root_two
    THEN self
    ELSE IF self.sizes[root_one] < self.sizes[root_two]
         THEN [self EXCEPT !.roots[root_one] = root_two,
                           !.sizes[root_two] = self.sizes[root_two] + self.sizes[root_one],
                           !.count = self.count + 1]
         ELSE [self EXCEPT !.roots[root_two] = root_one,
                           !.sizes[root_one] = self.sizes[root_one] + self.sizes[root_two],
                           !.count = self.count + 1]

\* Mutant of union_roots: both branches add the sizes into root_one's entry.
union_roots_size_of_one(self, root_one, root_two) ==
    IF root_one = root_two
    THEN self
    ELSE IF self.sizes[root_one] < self.sizes[root_two]
         THEN [self EXCEPT !.roots[root_one] = root_two,
                           !.sizes[root_one] = self.sizes[root_one] + self.sizes[root_two],
                           !.count = self.count - 1]
         ELSE [self EXCEPT !.roots[root_two] = root_one,
                           !.sizes[root_one] = self.sizes[root_one] + self.sizes[root_two],
                           !.count = self.count - 1]

\* Mutant of union_roots: the comparison is <=, so that roots of equal size
\* put root_one under root_two.
union_roots_tie_to_two(self, root_one, root_two) ==
    IF root_one = root_two
    THEN self
    ELSE IF self.sizes[root_one] <= self.sizes[root_two]
         THEN [self EXCEPT !.roots[root_one] = root_two,
                           !.sizes[root_two] = self.sizes[root_two] + self.sizes[root_one],
                           !.count = self.count - 1]
         ELSE [self EXCEPT !.roots[root_two] = root_one,
                           !.sizes[root_one] = self.sizes[root_one] + self.sizes[root_two],
                           !.count = self.count - 1]

\* Mutant of union_roots: the comparison is >, so that the larger tree goes
\* under the root of the smaller one.
union_roots_larger_under(self, root_one, root_two) ==
    IF root_one = root_two
    THEN self
    ELSE IF self.sizes[root_one] > self.sizes[root_two]
         THEN [self EXCEPT !.roots[root_one] = root_two,
                           !.sizes[root_two] = self.sizes[root_two] + self.sizes[root_one],
                           !.count = self.count - 1]
         ELSE [self EXCEPT !.roots[root_two] = root_one,
                           !.sizes[root_one] = self.sizes[root_one] + self.sizes[root_two],
                           !.count = self.count - 1]

\* union, lines 100-109: the two roots are known; merge them.
union_roots(self, root_one, root_two) ==
    IF root_one = root_two
    THEN self
    ELSE IF self.sizes[root_one] < self.sizes[root_two]
         THEN [self EXCEPT !.roots[root_one] = root_two,
                           !.sizes[root_two] = self.sizes[root_two] + self.sizes[root_one],
                           !.count = self.count - 1]
         ELSE [self EXCEPT !.roots[root_two] = root_one,
                           !.sizes[root_one] = self.sizes[root_one] + self.sizes[root_two],
                           !.count = self.count - 1]

\* Mutant of union: the two slots are merged, not the roots they resolve to.
union_items(self, identifier_one, identifier_two) ==
    IF \/ identifier_one \notin DOMAIN self.identifiers
       \/ identifier_two \notin DOMAIN self.identifiers
    THEN Raised(self, "ValueError")
    ELSE Returned(union_roots(self, self.identifiers[identifier_one],
                              self.identifiers[identifier_two]),
                  None)

\* union, lines 87-98: the check of both identifiers, then the two root
\* resolutions, the second on the list the first one left.
union(self, identifier_one, identifier_two) ==
    IF \/ identifier_one \notin DOMAIN self.identifiers
       \/ identifier_two \notin DOMAIN self.identifiers
    THEN Raised(self, "ValueError")
    ELSE LET item_one_idx == self.identifiers[identifier_one]
             item_two_idx == self.identifiers[identifier_two]
             one == _find_root(self.roots, item_one_idx)
             two == _find_root(one.roots, item_two_idx)
         IN  Returned(union_roots([self EXCEPT !.roots = two.roots], one.root, two.root),
                      None)

\* Mutant of get_node: an untracked identifier gets a slot and a Node
\* (get-or-create) instead of an exception.
get_node_or_create(self, identifier) ==
    IF identifier \notin DOMAIN self.identifiers
    THEN Returned(add_slot(self, identifier), len(self.roots))
    ELSE Returned(self, self.identifiers[identifier])

\* get_node: the slot of the identifier's Node.
get_node(self, identifier) ==
    IF identifier \notin DOMAIN self.identifiers
    THEN Raised(self, "ValueError")
    ELSE Returned(self, self.identifiers[identifier])

\* Mutant of connect_nodes: the edge is recorded in both directions.
connect_nodes_both_ways(nodes, source_node, destination_node) ==
    LET added == [nodes EXCEPT ![source_node].destinations = @ \cup {destination_node},
                               ![source_node].sources = @ \cup {destination_node}]
    IN  [added EXCEPT ![destination_node].sources = @ \cup {source_node},
                      ![destination_node].destinations = @ \cup {source_node}]

\* Mutant of connect_nodes: an edge from a node to itself is skipped.
connect_nodes_no_self_loop(nodes, source_node, destination_node) ==
    IF source_node = destination_node
    THEN nodes
    ELSE LET added == [nodes EXCEPT ![source_node].destinations = @ \cup {destination_node}]
         IN  [added EXCEPT ![destination_node].sources = @ \cup {source_node}]

\* connect, lines 125-126: the edge in both nodes' sets.
connect_nodes(nodes, source_node, destination_node) ==
    LET added == [nodes EXCEPT ![source_node].destinations = @ \cup {destination_node}]
    IN  [added EXCEPT ![destination_node].sources = @ \cup {source_node}]

\* Mutant of connect: the edge is recorded without the union.
connect_without_union(self, source, destination) ==
    LET source_node == get_node(self, source)
        destination_node == get_node(self, destination)
    IN  IF source_node.raised # "none" THEN source_node
        ELSE IF destination_node.raised # "none" THEN destination_node
        ELSE Returned([self EXCEPT !.nodes =
                          connect_nodes(self.nodes, source_node.result,
                                        destination_node.result)],
                      None)

\* Mutant of connect: the union is made of the source with itself.
connect_union_source_twice(self, source, destination) ==
    LET merged == union(self, source, source)
    IN  IF merged.raised # "none"
        THEN merged
        ELSE LET source_node == get_node(merged.self, source)
                 destination_node == get_node(merged.self, destination)
             IN  IF source_node.raised # "none" THEN source_node
                 ELSE IF destination_node.raised # "none" THEN destination_node
                 ELSE Returned([merged.self EXCEPT !.nodes =
                                   connect_nodes(merged.self.nodes, source_node.result,
                                                 destination_node.result)],
                               None)

\* connect: union, both get_node lookups, then the edge; the first exception
\* ends the call.
connect(self, source, destination) ==
    LET merged == union(self, source, destination)
    IN  IF merged.raised # "none"
        THEN merged
        ELSE LET source_node == get_node(merged.self, source)
                 destination_node == get_node(merged.self, destination)
             IN  IF source_node.raised # "none" THEN source_node
                 ELSE IF destination_node.raised # "none" THEN destination_node
                 ELSE Returned([merged.self EXCEPT !.nodes =
                                   connect_nodes(merged.self.nodes, source_node.result,
                                                 destination_node.result)],
                               None)

\* __init__
Init ==
    /\ _roots = << >>
    /\ _nodes = << >>
    /\ _identifiers = << >>
    /\ _sizes = << >>
    /\ _count = 0
    /\ last = [op |-> "__init__", args |-> << >>, raised |-> "none", result |-> None,
               again |-> FALSE]
    /\ before = [roots |-> << >>, nodes |-> << >>, identifiers |-> << >>,
                 sizes |-> << >>, count |-> 0]
    /\ connected = {}
    /\ calls = 0

\* One call of a public method: the object becomes what the call left, and
\* the call, its outcome and the object it was made on are recorded.
Record(op, args, outcome) ==
    /\ calls' = calls + 1
    /\ _roots' = outcome.self.roots
    /\ _nodes' = outcome.self.nodes
    /\ _identifiers' = outcome.self.identifiers
    /\ _sizes' = outcome.self.sizes
    /\ _count' = outcome.self.count
    /\ last' = [op |-> op, args |-> args, raised |-> outcome.raised,
                result |-> outcome.result,
                again |-> (last.op = op /\ last.args = args)]
    /\ before' = Self
    /\ connected' = IF op = "connect" /\ outcome.raised = "none"
                    THEN connected \cup {args}
                    ELSE connected

Call(op, args, outcome) ==
    /\ calls < MaxCalls
    /\ Record(op, args, outcome)

LongCall(op, args, outcome) ==
    /\ calls < MaxLongCalls
    /\ Record(op, args, outcome)

\* The identifiers given to add: every tracked one (a duplicate) and the
\* smallest untracked one.  The code only hashes and compares identifiers, so
\* naming the k-th new identifier k loses no behaviour.
AddInputs ==
    {identifier \in Identifiers :
        \A smaller \in 1..(identifier - 1) : smaller \in DOMAIN _identifiers}

Add == \E identifier \in AddInputs :
    Call("add", <<identifier>>, add(Self, identifier))

Find == \E identifier \in Identifiers :
    Call("find", <<identifier>>, find(Self, identifier))

Union == \E identifier_one \in Identifiers, identifier_two \in Identifiers :
    Call("union", <<identifier_one, identifier_two>>,
         union(Self, identifier_one, identifier_two))

Connect == \E source \in Identifiers, destination \in Identifiers :
    Call("connect", <<source, destination>>, connect(Self, source, destination))

GetNode == \E identifier \in Identifiers :
    Call("get_node", <<identifier>>, get_node(Self, identifier))

Next == Add \/ Find \/ Union \/ Connect \/ GetNode

Spec == Init /\ [][Next]_vars

\* Callers that merge classes only through connect.
NextConnectOnly == Add \/ Find \/ Connect \/ GetNode

SpecConnectOnly == Init /\ [][NextConnectOnly]_vars

\* Callers that never merge classes.
NextAddFind == Add \/ Find \/ GetNode

SpecAddFind == Init /\ [][NextAddFind]_vars

\* Callers that only add, connect and find, and make longer runs of calls.
LongAdd == \E identifier \in AddInputs :
    LongCall("add", <<identifier>>, add(Self, identifier))

LongFind == \E identifier \in Identifiers :
    LongCall("find", <<identifier>>, find(Self, identifier))

LongConnect == \E source \in Identifiers, destination \in Identifiers :
    LongCall("connect", <<source, destination>>, connect(Self, source, destination))

NextLong == LongAdd \/ LongFind \/ LongConnect

SpecLong == Init /\ [][NextLong]_vars

\* Callers that use every operation and make longer runs of calls.
LongUnion == \E identifier_one \in Identifiers, identifier_two \in Identifiers :
    LongCall("union", <<identifier_one, identifier_two>>,
             union(Self, identifier_one, identifier_two))

LongGetNode == \E identifier \in Identifiers :
    LongCall("get_node", <<identifier>>, get_node(Self, identifier))

NextLongAll == LongAdd \/ LongFind \/ LongUnion \/ LongGetNode \/ LongConnect

SpecLongAll == Init /\ [][NextLongAll]_vars

(***************************************************************************)
(* What the claims speak of.                                               *)
(***************************************************************************)

\* The class token of a tracked identifier: what find(identifier) returns
\* when called on the object `self`.
token(self, identifier) == find(self, identifier).result

\* The identifiers tracked now, and those tracked when the last call was made.
Tracked == DOMAIN _identifiers

TrackedBefore == DOMAIN before.identifiers

\* The identifiers joined to x by one recorded edge, in either direction.
Neighbours(x) ==
    {y \in Identifiers : <<x, y>> \in connected \/ <<y, x>> \in connected}

\* The identifiers joined to one of S by a chain of recorded edges.
RECURSIVE Chained(_)
Chained(S) ==
    LET T == S \cup UNION {Neighbours(x) : x \in S}
    IN  IF T = S THEN S ELSE Chained(T)

\* The last call was given an identifier that was not tracked.
UnknownArgument ==
    /\ last.op \in {"find", "union", "connect", "get_node"}
    /\ \E i \in DOMAIN last.args : last.args[i] \notin TrackedBefore

\* The last call was union(a, b) with both identifiers tracked.
UnionOfTracked ==
    /\ last.op = "union"
    /\ last.args[1] \in TrackedBefore
    /\ last.args[2] \in TrackedBefore

(***************************************************************************)
(* C1: after any sequence of calls, failed ones included, count is the     *)
(* number of slots i with parent[i] = i.                                   *)
(***************************************************************************)
C1_CountIsNumberOfRoots ==
    _count = Cardinality({i \in DOMAIN _roots : _roots[i] = i})

\* A failed call on a forest in which classes were merged and several remain.
C1_Witness ==
    /\ last.raised # "none"
    /\ 1 < _count
    /\ _count < len(_roots)

(***************************************************************************)
(* C2: union(a, b) of tracked identifiers returns, leaves find(a) equal to *)
(* find(b), and lowers count by exactly 1 if the two find results differed *)
(* before the call, and not at all otherwise.                              *)
(***************************************************************************)
C2_UnionMergesAndCounts ==
    UnionOfTracked =>
        LET a == last.args[1]
            b == last.args[2]
        IN  /\ last.raised = "none"
            /\ token(Self, a) = token(Self, b)
            /\ _count = IF token(before, a) # token(before, b)
                        THEN before.count - 1
                        ELSE before.count

\* A union that put the smaller class of a under the root of b's larger one.
C2_Witness ==
    /\ UnionOfTracked
    /\ token(before, last.args[1]) # token(before, last.args[2])
    /\ before.sizes[token(before, last.args[1])]
           < before.sizes[token(before, last.args[2])]
    /\ _count = before.count - 1

(***************************************************************************)
(* C3: find, union, connect and get_node given an identifier that was      *)
(* never added raise, and leave parent, size, count, the identifier index  *)
(* and every node's destinations and sources as they were.                 *)
(***************************************************************************)
C3_UnknownRaisesAndMutatesNothing ==
    UnknownArgument =>
        /\ last.raised # "none"
        /\ last.result = None
        /\ Self = before

\* connect from a tracked, merged, already connected source to an identifier
\* that was never added.
C3_Witness ==
    /\ last.op = "connect"
    /\ last.args[1] \in TrackedBefore
    /\ last.args[2] \notin TrackedBefore
    /\ last.raised # "none"
    /\ _nodes[_identifiers[last.args[1]]].destinations # {}
    /\ _count < len(_roots)

(***************************************************************************)
(* C4: add of an identifier that is already registered raises and leaves   *)
(* count, membership, the slot table and the identifier index unchanged.   *)
(***************************************************************************)
C4_DuplicateRaisesAndMutatesNothing ==
    (last.op = "add" /\ last.args[1] \in TrackedBefore) =>
        /\ last.raised # "none"
        /\ Self = before

\* A duplicate add on an object that holds merged classes and edges.
C4_Witness ==
    /\ last.op = "add"
    /\ last.args[1] \in TrackedBefore
    /\ last.raised # "none"
    /\ _count < len(_roots)
    /\ connected # {}

(***************************************************************************)
(* C5: the error of add on a registered identifier differs in kind from    *)
(* the error of find, union, connect and get_node on an identifier that    *)
(* was never added, and those four errors are of one kind.                 *)
(***************************************************************************)
C5_ErrorKindsDistinguishable ==
    \A x \in Tracked : \A y \in Identifiers \ Tracked :
        LET duplicate == add(Self, x).raised
            unknown == {find(Self, y).raised, get_node(Self, y).raised,
                        union(Self, x, y).raised, union(Self, y, x).raised,
                        connect(Self, x, y).raised, connect(Self, y, x).raised}
        IN  /\ duplicate # "none"
            /\ "none" \notin unknown
            /\ duplicate \notin unknown
            /\ Cardinality(unknown) = 1

(***************************************************************************)
(* C6: for tracked a and b, b's node is in get_node(a).destinations iff    *)
(* a's node is in get_node(b).sources iff a connect(a, b) has returned;    *)
(* so connect(a, b) never puts a in b's destinations, and a repeated       *)
(* connect(a, b) adds nothing.                                             *)
(***************************************************************************)
C6_EdgesSymmetricAndExact ==
    \A a \in Tracked : \A b \in Tracked :
        LET node_a == get_node(Self, a).result
            node_b == get_node(Self, b).result
        IN  /\ _nodes[node_a].identifier = a
            /\ (node_b \in _nodes[node_a].destinations) <=> (<<a, b>> \in connected)
            /\ (node_a \in _nodes[node_b].sources) <=> (<<a, b>> \in connected)

\* connect(a, b) made a second time, with no connect(b, a) ever made.
C6_Witness ==
    /\ last.op = "connect"
    /\ last.again
    /\ last.raised = "none"
    /\ last.args[1] # last.args[2]
    /\ <<last.args[2], last.args[1]>> \notin connected
    /\ _nodes[_identifiers[last.args[1]]].destinations = {_identifiers[last.args[2]]}

(***************************************************************************)
(* C7: two identifiers joined by a chain of recorded edges, each taken in  *)
(* either direction, have the same find result.                            *)
(***************************************************************************)
C7_ChainedShareClass ==
    \A a \in Tracked : \A b \in Chained({a}) :
        token(Self, a) = token(Self, b)

\* a -> b and c -> b recorded, no edge between a and c, one class.
C7_Witness ==
    \E a \in Tracked, b \in Tracked, c \in Tracked :
        /\ a # b /\ b # c /\ a # c
        /\ connected = {<<a, b>>, <<c, b>>}
        /\ token(Self, a) = token(Self, c)

(***************************************************************************)
(* C8: when classes are merged through connect only, find(a) = find(b) iff *)
(* a and b are joined by a chain of recorded edges, and count is the       *)
(* number of weakly connected components of the recorded edges.            *)
(***************************************************************************)
C8_ClassesAreComponents ==
    /\ \A a \in Tracked : \A b \in Tracked :
           (token(Self, a) = token(Self, b)) <=> (b \in Chained({a}))
    /\ _count = Cardinality({Chained({a}) : a \in Tracked})

\* B1..B4 added, B1->B2 and B2->B3 connected (two classes), then B4->B1.
C8_Witness ==
    /\ Tracked = {1, 2, 3, 4}
    /\ connected = {<<1, 2>>, <<2, 3>>, <<4, 1>>}
    /\ last.op = "connect" /\ last.args = <<4, 1>>
    /\ before.count = 2
    /\ token(before, 1) = token(before, 3)
    /\ token(before, 4) # token(before, 1)
    /\ _count = 1

(***************************************************************************)
(* C9: with add and find calls only, count is the number of identifiers    *)
(* added and distinct identifiers have distinct find results.              *)
(***************************************************************************)
C9_SingletonClasses ==
    /\ _count = Cardinality(Tracked)
    /\ \A a \in Tracked : \A b \in Tracked :
           a # b => token(Self, a) # token(Self, b)

\* Three or more identifiers added, and a find made.
C9_Witness ==
    /\ Cardinality(Tracked) >= 3
    /\ last.op = "find"
    /\ last.raised = "none"

(***************************************************************************)
(* C10: union(a, b) of tracked identifiers made twice in a row: the second *)
(* call returns and changes neither count nor any identifier's class.      *)
(***************************************************************************)
C10_SecondUnionChangesNoClass ==
    (UnionOfTracked /\ last.again) =>
        /\ last.raised = "none"
        /\ _count = before.count
        /\ _sizes = before.sizes
        /\ \A x \in Tracked : token(Self, x) = token(before, x)

\* The second of two union(a, b) calls on distinct classes merged by the first.
C10_Witness ==
    /\ UnionOfTracked
    /\ last.again
    /\ last.args[1] # last.args[2]
    /\ before.roots[before.identifiers[last.args[2]]]
           = before.identifiers[last.args[1]]
    /\ before.sizes[before.identifiers[last.args[1]]] = 2

(***************************************************************************)
(* C11: connect(a, a) of a tracked identifier, root or not, returns, puts  *)
(* a's node in its own destinations and in its own sources, and changes    *)
(* neither count nor any identifier's class.                               *)
(***************************************************************************)
C11_SelfLoop ==
    (/\ last.op = "connect"
     /\ last.args[1] = last.args[2]
     /\ last.args[1] \in TrackedBefore) =>
        LET node_a == get_node(Self, last.args[1]).result
        IN  /\ last.raised = "none"
            /\ node_a \in _nodes[node_a].destinations
            /\ node_a \in _nodes[node_a].sources
            /\ _count = before.count
            /\ Tracked = TrackedBefore
            /\ \A x \in Tracked : token(Self, x) = token(before, x)

\* connect(a, a) on an identifier whose slot is not a root and had no edge.
C11_Witness ==
    /\ last.op = "connect"
    /\ last.args[1] = last.args[2]
    /\ last.raised = "none"
    /\ before.roots[before.identifiers[last.args[1]]]
           # before.identifiers[last.args[1]]
    /\ before.nodes[before.identifiers[last.args[1]]].destinations = {}

(***************************************************************************)
(* C12: the find result of an identifier differs after a call from what it *)
(* was before the call only if the call was a union or connect that        *)
(* returned and merged two distinct roots; add, find, get_node, failed     *)
(* calls and unions of one class leave every find result as it was.        *)
(***************************************************************************)
C12_TokenStableUntilMerge ==
    \A x \in TrackedBefore :
        (x \notin Tracked \/ token(Self, x) # token(before, x)) =>
            /\ last.op \in {"union", "connect"}
            /\ last.raised = "none"
            /\ token(before, last.args[1]) # token(before, last.args[2])

\* A find on a slot two links below its root, on an object on which a connect
\* has returned: the loop of _find_root rewrites the slot's parent to its
\* grandparent, and every find result is what it was.
C12_Witness ==
    /\ last.op = "find"
    /\ last.raised = "none"
    /\ connected # {}
    /\ LET slot   == before.identifiers[last.args[1]]
           parent == before.roots[slot]
           grand  == before.roots[parent]
       IN  /\ parent # slot
           /\ grand # parent
           /\ before.roots[grand] = grand
           /\ _roots[slot] = grand
           /\ _roots # before.roots
           /\ last.result = grand
    /\ \A x \in Tracked : token(Self, x) = token(before, x)

(***************************************************************************)
(* C13: across every call, identifiers that were tracked stay tracked in   *)
(* the same slot, identifiers that had the same find result still have the *)
(* same find result, and count grows only by exactly 1 and only in an add  *)
(* that returned.  (Holding across each call, this holds between any state *)
(* and every later one.)                                                   *)
(***************************************************************************)
C13_OnlyCoalesceAndAppend ==
    /\ TrackedBefore \subseteq Tracked
    /\ DOMAIN before.roots \subseteq DOMAIN _roots
    /\ \A a \in TrackedBefore : _identifiers[a] = before.identifiers[a]
    /\ \A a \in TrackedBefore : \A b \in TrackedBefore :
           token(before, a) = token(before, b) => token(Self, a) = token(Self, b)
    /\ _count > before.count =>
           /\ last.op = "add"
           /\ last.raised = "none"
           /\ _count = before.count + 1

\* A merge of two classes made when two other identifiers already shared one.
C13_Witness ==
    /\ last.op \in {"union", "connect"}
    /\ _count = before.count - 1
    /\ \E a \in TrackedBefore, b \in TrackedBefore :
           /\ a # b
           /\ token(before, a) = token(before, b)
           /\ token(Self, a) = token(Self, b)

(***************************************************************************)
(* C14: add(x) of an untracked identifier on an object of N slots returns, *)
(* gives x the slot N with parent N and size 1 and a node for x with empty *)
(* destinations and sources, raises count by 1, and leaves every other     *)
(* slot's parent, size and node and every other identifier's slot as they  *)
(* were; the identifiers map one-to-one onto the slots 0..N.               *)
(***************************************************************************)
C14_AddAppendsOneSlot ==
    (last.op = "add" /\ last.args[1] \notin TrackedBefore) =>
        LET x == last.args[1]
            N == len(before.roots)
        IN  /\ last.raised = "none"
            /\ Tracked = TrackedBefore \cup {x}
            /\ _identifiers[x] = N
            /\ DOMAIN _roots = 0..N
            /\ DOMAIN _sizes = 0..N
            /\ DOMAIN _nodes = 0..N
            /\ _roots[N] = N
            /\ _sizes[N] = 1
            /\ _nodes[N].identifier = x
            /\ _nodes[N].destinations = {}
            /\ _nodes[N].sources = {}
            /\ _count = before.count + 1
            /\ \A i \in 0..(N - 1) :
                   /\ _roots[i] = before.roots[i]
                   /\ _sizes[i] = before.sizes[i]
                   /\ _nodes[i] = before.nodes[i]
            /\ \A y \in TrackedBefore : _identifiers[y] = before.identifiers[y]
            /\ {_identifiers[y] : y \in Tracked} = 0..N
            /\ Cardinality(Tracked) = N + 1

\* An add made on an object that holds merged classes and recorded edges.
C14_Witness ==
    /\ last.op = "add"
    /\ last.raised = "none"
    /\ before.count < len(before.roots)
    /\ connected # {}
    /\ len(_roots) >= 3

(***************************************************************************)
(* The parent forest, read without writing to it.                          *)
(***************************************************************************)

\* The slot reached from `slot` by following k parent links.
RECURSIVE ancestor(_, _, _)
ancestor(roots, slot, k) ==
    IF k = 0 THEN slot ELSE ancestor(roots, roots[slot], k - 1)

\* The numbers of parent links from `slot` that end on a self-parented slot,
\* among the path lengths possible without a repeated slot.
steps_to_root(roots, slot) ==
    {k \in 0..(len(roots) - 1) :
        LET top == ancestor(roots, slot, k) IN roots[top] = top}

\* The number of parent links from `slot` to its root, and that root.
depth(roots, slot) ==
    CHOOSE k \in steps_to_root(roots, slot) :
        \A j \in steps_to_root(roots, slot) : k <= j

root_of(roots, slot) == ancestor(roots, slot, depth(roots, slot))

(***************************************************************************)
(* C15: every parent[i] is a slot, and following parent links from any     *)
(* slot reaches a self-parented slot without visiting a slot twice; the    *)
(* loop of _find_root ends on that slot.                                   *)
(***************************************************************************)
C15_ParentIsForest ==
    /\ \A i \in DOMAIN _roots : _roots[i] \in DOMAIN _roots
    /\ \A i \in DOMAIN _roots :
           /\ steps_to_root(_roots, i) # {}
           /\ \A j \in 0..depth(_roots, i) : \A k \in 0..depth(_roots, i) :
                  j # k => ancestor(_roots, i, j) # ancestor(_roots, i, k)
           /\ _find_root(_roots, i).root = root_of(_roots, i)

\* A slot two parent links away from its root.
C15_Witness ==
    \E i \in DOMAIN _roots :
        /\ _roots[i] # i
        /\ _roots[_roots[i]] # _roots[i]
        /\ _roots[_roots[_roots[i]]] = _roots[_roots[i]]

\* The slots whose parent links end on the root r.
class_of(roots, r) == {i \in DOMAIN roots : root_of(roots, i) = r}

\* The self-parented slots.
roots_of(roots) == {r \in DOMAIN roots : roots[r] = r}

\* The sum of sizes[r] over the slots r of S.
RECURSIVE sum_of_sizes(_, _)
sum_of_sizes(sizes, S) ==
    IF S = {}
    THEN 0
    ELSE LET r == CHOOSE r \in S : TRUE
         IN  sizes[r] + sum_of_sizes(sizes, S \ {r})

(***************************************************************************)
(* C16: for every root r, size[r] is the number of slots whose parent      *)
(* links end on r; the sizes of the roots sum to the number of slots.      *)
(***************************************************************************)
C16_RootSizeIsClassSize ==
    /\ \A r \in roots_of(_roots) :
           _sizes[r] = Cardinality(class_of(_roots, r))
    /\ sum_of_sizes(_sizes, roots_of(_roots)) = len(_roots)
    /\ len(_roots) = Cardinality(Tracked)

\* A root of size 4 over a former root whose size entry stayed 2.
C16_Witness ==
    \E r \in roots_of(_roots) : \E i \in DOMAIN _roots :
        /\ _sizes[r] = 4
        /\ _roots[i] # i
        /\ _sizes[i] = 2

\* The slots the loop of _find_root started on `slot` writes to: the slot,
\* then the grandparent it moves to, and so on up to the root.
RECURSIVE visited(_, _)
visited(roots, slot) ==
    IF roots[slot] = slot
    THEN {}
    ELSE {slot} \cup visited(roots, roots[roots[slot]])

\* The slots on the path of parent links from `slot` to its root.
path(roots, slot) ==
    {ancestor(roots, slot, k) : k \in 0..depth(roots, slot)}

(***************************************************************************)
(* C17: find(x) returns the root x's slot resolved to before the call;     *)
(* every slot the loop visited has its former grandparent as parent, no    *)
(* other parent pointer changed, and the changed ones are on the path from *)
(* x to the root; every slot resolves to the root it resolved to, roots    *)
(* stay roots, and sizes, count, the index and the nodes are unchanged.    *)
(***************************************************************************)
C17_FindHalvesPathOnly ==
    (last.op = "find" /\ last.args[1] \in TrackedBefore) =>
        LET slot == before.identifiers[last.args[1]]
        IN  /\ last.raised = "none"
            /\ last.result = root_of(before.roots, slot)
            /\ DOMAIN _roots = DOMAIN before.roots
            /\ \A i \in DOMAIN _roots :
                   _roots[i] = IF i \in visited(before.roots, slot)
                               THEN before.roots[before.roots[i]]
                               ELSE before.roots[i]
            /\ \A i \in DOMAIN _roots :
                   _roots[i] # before.roots[i] => i \in path(before.roots, slot)
            /\ \A i \in DOMAIN _roots :
                   root_of(_roots, i) = root_of(before.roots, i)
            /\ roots_of(_roots) = roots_of(before.roots)
            /\ _sizes = before.sizes
            /\ _count = before.count
            /\ _identifiers = before.identifiers
            /\ _nodes = before.nodes

\* A find on a slot two links below its root, which re-parents it to the root.
C17_Witness ==
    /\ last.op = "find"
    /\ last.raised = "none"
    /\ LET slot == before.identifiers[last.args[1]]
       IN  /\ depth(before.roots, slot) = 2
           /\ _roots[slot] = last.result
           /\ before.roots[slot] # last.result
    /\ connected # {}

\* The roots the two arguments of the last call resolved to before it.
root_one_before == root_of(before.roots, before.identifiers[last.args[1]])

root_two_before == root_of(before.roots, before.identifiers[last.args[2]])

\* The last call was a union of tracked identifiers of two classes.
UnionOfTwoClasses ==
    /\ UnionOfTracked
    /\ root_one_before # root_two_before

(***************************************************************************)
(* C18: when union merges distinct roots root_one and root_two, the root   *)
(* of strictly smaller size becomes a child of the other, and with equal   *)
(* sizes root_two becomes a child of root_one; the surviving root's size   *)
(* is the sum of both sizes, and it is the find result of every member of  *)
(* the two former classes.                                                 *)
(***************************************************************************)
C18_UnionBySize ==
    UnionOfTwoClasses =>
        LET size_one == before.sizes[root_one_before]
            size_two == before.sizes[root_two_before]
            survivor == IF size_one < size_two THEN root_two_before ELSE root_one_before
            child == IF size_one < size_two THEN root_one_before ELSE root_two_before
        IN  /\ size_one < size_two => _roots[root_one_before] = root_two_before
            /\ size_two < size_one => _roots[root_two_before] = root_one_before
            /\ size_one = size_two => _roots[root_two_before] = root_one_before
            /\ _roots[child] = survivor
            /\ _roots[survivor] = survivor
            /\ _sizes[survivor] = size_one + size_two
            /\ \A y \in Tracked :
                   before.identifiers[y] \in class_of(before.roots, root_one_before)
                                             \cup class_of(before.roots, root_two_before)
                       => token(Self, y) = survivor

\* A union of two classes of size 2 each: root_two goes under root_one.
C18_Witness ==
    /\ UnionOfTwoClasses
    /\ before.sizes[root_one_before] = 2
    /\ before.sizes[root_two_before] = 2
    /\ _roots[root_two_before] = root_one_before
    /\ _sizes[root_one_before] = 4

(***************************************************************************)
(* C19: a slot h parent links away from its root r has 2^h <= size[r],     *)
(* that is h <= floor(log2(size[r])), after merges by size and after the   *)
(* path halving of find.                                                   *)
(***************************************************************************)
C19_HeightAtMostLogSize ==
    \A i \in DOMAIN _roots :
        2 ^ depth(_roots, i) <= _sizes[root_of(_roots, i)]

\* After a find, a slot two links below a root of size 4: the bound is met
\* with equality.
C19_Witness ==
    /\ last.op = "find"
    /\ last.raised = "none"
    /\ \E i \in DOMAIN _roots :
           /\ depth(_roots, i) = 2
           /\ _sizes[root_of(_roots, i)] = 4

====
